---- MODULE Spec2Model ----
(***************************************************************************)
(* A model of src/bin/common/parse-cli-args.js: the parser that turns a   *)
(* list of command-line tokens into an ArgumentSet (run groups, global    *)
(* flags and the package-config overrides).                               *)
(*                                                                         *)
(* A JavaScript string is a sequence of one-character strings, so that    *)
(* the three regular expressions and arg[0], arg.slice(1).split("") are   *)
(* computed on the characters.  An array is an object on `heap` and a     *)
(* group's `patterns` field holds its address: object-assign copies       *)
(* the reference of a caller-supplied `patterns` array, it does not copy  *)
(* the array.                                                              *)
(***************************************************************************)
EXTENDS Integers, Sequences, FiniteSets, TLC

\* Longest token list drawn from CoreTokens in Init.
MaxLen == 3

----------------------------------------------------------------------------
\* Tokens of the switch statement (parse-cli-args.js:114-175).
T_c == <<"-", "c">>
T_continue_on_error == <<"-", "-", "c", "o", "n", "t", "i", "n", "u", "e", "-", "o", "n", "-", "e", "r", "r", "o", "r">>
T_h == <<"-", "h">>
T_help == <<"-", "-", "h", "e", "l", "p">>
T_l == <<"-", "l">>
T_print_label == <<"-", "-", "p", "r", "i", "n", "t", "-", "l", "a", "b", "e", "l">>
T_n == <<"-", "n">>
T_print_name == <<"-", "-", "p", "r", "i", "n", "t", "-", "n", "a", "m", "e">>
T_silent == <<"-", "-", "s", "i", "l", "e", "n", "t">>
T_v == <<"-", "v">>
T_version == <<"-", "-", "v", "e", "r", "s", "i", "o", "n">>
T_color == <<"-", "-", "c", "o", "l", "o", "r">>
T_no_color == <<"-", "-", "n", "o", "-", "c", "o", "l", "o", "r">>
T_S == <<"-", "S">>
T_s == <<"-", "s">>
T_sequential == <<"-", "-", "s", "e", "q", "u", "e", "n", "t", "i", "a", "l">>
T_serial == <<"-", "-", "s", "e", "r", "i", "a", "l">>
T_P == <<"-", "P">>
T_p == <<"-", "p">>
T_parallel == <<"-", "-", "p", "a", "r", "a", "l", "l", "e", "l">>

\* Further input tokens: overwrite directives, bundles, unknown flags, patterns.
T_foo_bar_eq_baz == <<"-", "-", "f", "o", "o", ":", "b", "a", "r", "=", "b", "a", "z">>
T_foo_bar == <<"-", "-", "f", "o", "o", ":", "b", "a", "r">>
T_foo_qux == <<"-", "-", "f", "o", "o", ":", "q", "u", "x">>
T_foo_bar_eq == <<"-", "-", "f", "o", "o", ":", "b", "a", "r", "=">>
T_foo_bar_eq_a_eq_b == <<"-", "-", "f", "o", "o", ":", "b", "a", "r", "=", "a", "=", "b">>
T_colon_bar == <<"-", "-", ":", "b", "a", "r">>
T_foo_colon == <<"-", "-", "f", "o", "o", ":">>
T_foo_bar_eq_multiline == <<"-", "-", "f", "o", "o", ":", "b", "a", "r", "=", "a", "\n", "b">>
T_multiline == <<"a", "\n", "b">>
T_clnv == <<"-", "c", "l", "n", "v">>
T_ls == <<"-", "l", "s">>
T_cP == <<"-", "c", "P">>
T_Sn == <<"-", "S", "n">>
T_hsp == <<"-", "h", "s", "p">>
T_cx == <<"-", "c", "x">>
T_x == <<"-", "x">>
T_dash == <<"-">>
T_unknown == <<"-", "-", "u", "n", "k", "n", "o", "w", "n">>
T_a == <<"a">>
T_b == <<"b">>
T_pattern_c == <<"c">>
T_baz == <<"b", "a", "z">>
T_empty == <<>>

\* Strings of the environment.
S_silent == <<"s", "i", "l", "e", "n", "t">>
S_foo == <<"f", "o", "o">>
S_bar == <<"b", "a", "r">>
S_env == <<"e", "n", "v">>

\* JavaScript's undefined and null: no string equals them.
Undefined == <<"undefined">>
Null == <<"null">>

\* {}: an object with no property.
EmptyObject == [k \in {} |-> Undefined]

\* obj[key] = value.
SetProperty(obj, key, value) ==
    [k \in DOMAIN obj \cup {key} |-> IF k = key THEN value ELSE obj[k]]

\* The first position of ch in s, 0 when there is none.
IndexOf(s, ch) ==
    IF \E k \in 1..Len(s) : s[k] = ch
    THEN CHOOSE k \in 1..Len(s) : s[k] = ch /\ \A j \in 1..(k - 1) : s[j] # ch
    ELSE 0

\* The characters `.` does not match (U+2028 and U+2029 are left out).
LineTerminators == {"\n", "\r"}

\* OVERWRITE_OPTION.exec(arg) for /^--([^:]+?):([^=]+?)(?:=(.+))?$/ : the match
\* (matched[0..3], matched[3] undefined when the group took no part) or null.
\* [^:]+? ends at the first ":"; [^=]+? runs to the end of the token, or to
\* the first "=" when a non-empty value without a line terminator follows.
OVERWRITE_OPTION_exec(arg) ==
    IF Len(arg) < 2 \/ arg[1] # "-" \/ arg[2] # "-"
    THEN Null
    ELSE LET body == SubSeq(arg, 3, Len(arg))
             colon == IndexOf(body, ":")
             rest == SubSeq(body, colon + 1, Len(body))
             eq == IndexOf(rest, "=")
             value == SubSeq(rest, eq + 1, Len(rest))
         IN  IF colon < 2 \/ rest = <<>>
             THEN Null
             ELSE IF eq = 0
             THEN [k \in 0..3 |-> CASE k = 0 -> arg
                                    [] k = 1 -> SubSeq(body, 1, colon - 1)
                                    [] k = 2 -> rest
                                    [] k = 3 -> Undefined]
             ELSE IF eq = 1 \/ value = <<>>
                     \/ \E k \in 1..Len(value) : value[k] \in LineTerminators
             THEN Null
             ELSE [k \in 0..3 |-> CASE k = 0 -> arg
                                    [] k = 1 -> SubSeq(body, 1, colon - 1)
                                    [] k = 2 -> SubSeq(rest, 1, eq - 1)
                                    [] k = 3 -> value]

ShortFlagLetters == {"c", "h", "l", "n", "p", "P", "s", "S", "v"}

\* CONCAT_OPTIONS.test(arg) for /^-[chlnpPsSv]+$/.
CONCAT_OPTIONS_test(arg) ==
    /\ Len(arg) >= 2
    /\ arg[1] = "-"
    /\ \A k \in 2..Len(arg) : arg[k] \in ShortFlagLetters

\* Explode with the bundle cut one character too far: arg.slice(2).
Explode_dropsFirst(arg) == [k \in 1..(Len(arg) - 2) |-> <<"-", arg[k + 2]>>]

\* arg.slice(1).split("").map(c => `-${c}`)
Explode(arg) == [k \in 1..(Len(arg) - 1) |-> <<"-", arg[k + 1]>>]

\* object-assign: the target's properties, overwritten by the source's own ones.
assign(target, source) ==
    [k \in DOMAIN target \cup DOMAIN source |->
        IF k \in DOMAIN source THEN source[k] ELSE target[k]]

\* overwriteConfig(config, packageName, variable, value)
overwriteConfig(config, packageName, variable, value) ==
    LET scope == IF packageName \in DOMAIN config
                 THEN config[packageName]
                 ELSE EmptyObject
    IN  SetProperty(config, packageName, SetProperty(scope, variable, value))

\* The loop of createPackageConfig over the keys that match CONFIG_PATTERN;
\* vars maps m[1] of each such key to its value.
RECURSIVE SeedConfig(_, _, _)
SeedConfig(retv, packageName, vars) ==
    IF DOMAIN vars = {}
    THEN retv
    ELSE LET key == CHOOSE k \in DOMAIN vars : TRUE
         IN  SeedConfig(overwriteConfig(retv, packageName, key, vars[key]),
                        packageName,
                        [k \in DOMAIN vars \ {key} |-> vars[k]])

\* createPackageConfig(), reading the snapshot e of process.env: e.config holds
\* the npm_package_config_* variables, keyed by the text after the prefix.
createPackageConfig(e) ==
    IF e.npm_package_name \in {Undefined, <<>>}
    THEN EmptyObject
    ELSE SeedConfig(EmptyObject, e.npm_package_name, e.config)

\* addGroup without its push.
addGroup_noPush(groups, h, initialValues) ==
    [groups |-> groups, heap |-> Append(h, <<>>)]

\* addGroup(groups, initialValues).  The literal `patterns: []` allocates a new
\* array at the next address of heap h; assign() then overwrites the fields
\* initialValues has, a `patterns` reference included.  Gives the new groups
\* and the new heap.
addGroup(groups, h, initialValues) ==
    [groups |-> Append(groups,
                       assign([continueOnError |-> FALSE,
                               parallel |-> FALSE,
                               patterns |-> Len(h) + 1,
                               printLabel |-> FALSE,
                               printName |-> FALSE],
                              initialValues)),
     heap |-> Append(h, <<>>)]

\* Boolean(options.singleMode)
SingleModeOf(opts) ==
    IF "singleMode" \in DOMAIN opts THEN opts.singleMode = TRUE ELSE FALSE

\* new ArgumentSet(initialValues, options) on heap h under environment e,
\* then the call parseCLIArgsCore(set, args) about to run its loop at i = 0
\* (positions are counted from 1 here).  The machine: the set, the heap, the
\* stack of parseCLIArgsCore activations, and how the call ended.
parseCLIArgs(a, iv, opts, e, h) ==
    LET g == addGroup(<<>>, h, iv)
    IN  [set |-> [groups |-> g.groups,
                  help |-> FALSE,
                  silent |-> (e.npm_config_loglevel = S_silent),
                  version |-> FALSE,
                  singleMode |-> SingleModeOf(opts),
                  packageConfig |-> createPackageConfig(e)],
         heap |-> g.heap,
         stack |-> <<[args |-> a, i |-> 1]>>,
         pc |-> "scan",
         error |-> <<>>]

\* get lastGroup(): this.groups[this.groups.length - 1]
lastGroup(s) == s.groups[Len(s.groups)]

\* The running activation of parseCLIArgsCore and the token it reads.
Top(m) == m.stack[Len(m.stack)]
AtEnd(m) == Top(m).i > Len(Top(m).args)
CurArg(m) == Top(m).args[Top(m).i]

\* ++i of the running loop.
NextArg(m) == [m EXCEPT !.stack[Len(m.stack)].i = @ + 1]

\* throw new Error(`Invalid Option: ${arg}`): the message is the prefix followed
\* by the characters of arg.  The stack is left as it was at the throw.
Throw(m, arg) == [m EXCEPT !.pc = "error", !.error = <<"Invalid Option: ">> \o arg]

\* The branch of the switch (and of the default case) that arg takes.
Kind(arg) ==
    CASE arg \in {T_c, T_continue_on_error} -> "continueOnError"
      [] arg \in {T_h, T_help} -> "help"
      [] arg \in {T_l, T_print_label} -> "printLabel"
      [] arg \in {T_n, T_print_name} -> "printName"
      [] arg = T_silent -> "silent"
      [] arg \in {T_v, T_version} -> "version"
      [] arg \in {T_color, T_no_color} -> "color"
      [] arg \in {T_S, T_s, T_sequential, T_serial} -> "sequential"
      [] arg \in {T_P, T_p, T_parallel} -> "parallel"
      [] OTHER -> IF OVERWRITE_OPTION_exec(arg) # Null THEN "overwrite"
                  ELSE IF CONCAT_OPTIONS_test(arg) THEN "concat"
                  ELSE IF Len(arg) >= 1 /\ arg[1] = "-" THEN "invalid"
                  ELSE "pattern"

\* case "-c", "--continue-on-error"
ContinueOnErrorCase(m) ==
    NextArg([m EXCEPT !.set.groups[Len(m.set.groups)].continueOnError = TRUE])

\* case "-h", "--help"
HelpCase(m) == NextArg([m EXCEPT !.set.help = TRUE])

\* case "-l", "--print-label"
PrintLabelCase(m) ==
    NextArg([m EXCEPT !.set.groups[Len(m.set.groups)].printLabel = TRUE])

\* case "-n", "--print-name"
PrintNameCase(m) ==
    NextArg([m EXCEPT !.set.groups[Len(m.set.groups)].printName = TRUE])

\* case "--silent"
SilentCase(m) == NextArg([m EXCEPT !.set.silent = TRUE])

\* case "-v", "--version"
VersionCase(m) == NextArg([m EXCEPT !.set.version = TRUE])

\* case "--color", "--no-color"
ColorCase(m) == NextArg(m)

\* SequentialCase taking "-s" for the silence flag in either mode.
SequentialCase_silentInAnyMode(m) ==
    LET arg == CurArg(m)
        g == addGroup(m.set.groups, m.heap, [continueOnError |-> (arg = T_S)])
    IN  IF arg = T_s
        THEN NextArg([m EXCEPT !.set.silent = TRUE])
        ELSE IF m.set.singleMode
        THEN Throw(m, arg)
        ELSE NextArg([m EXCEPT !.set.groups = g.groups, !.heap = g.heap])

\* SequentialCase with continueOnError: arg !== "-s".
SequentialCase_longIsStrict(m) ==
    LET arg == CurArg(m)
        g == addGroup(m.set.groups, m.heap, [continueOnError |-> (arg # T_s)])
    IN  IF m.set.singleMode /\ arg = T_s
        THEN NextArg([m EXCEPT !.set.silent = TRUE])
        ELSE IF m.set.singleMode
        THEN Throw(m, arg)
        ELSE NextArg([m EXCEPT !.set.groups = g.groups, !.heap = g.heap])

\* case "-S", "-s", "--sequential", "--serial"
SequentialCase(m) ==
    LET arg == CurArg(m)
        g == addGroup(m.set.groups, m.heap, [continueOnError |-> (arg = T_S)])
    IN  IF m.set.singleMode /\ arg = T_s
        THEN NextArg([m EXCEPT !.set.silent = TRUE])
        ELSE IF m.set.singleMode
        THEN Throw(m, arg)
        ELSE NextArg([m EXCEPT !.set.groups = g.groups, !.heap = g.heap])

\* ParallelCase without its singleMode test.
ParallelCase_ignoresSingleMode(m) ==
    LET arg == CurArg(m)
        g == addGroup(m.set.groups, m.heap,
                      [parallel |-> TRUE, continueOnError |-> (arg = T_P)])
    IN  NextArg([m EXCEPT !.set.groups = g.groups, !.heap = g.heap])

\* case "-P", "-p", "--parallel"
ParallelCase(m) ==
    LET arg == CurArg(m)
        g == addGroup(m.set.groups, m.heap,
                      [parallel |-> TRUE, continueOnError |-> (arg = T_P)])
    IN  IF m.set.singleMode
        THEN Throw(m, arg)
        ELSE NextArg([m EXCEPT !.set.groups = g.groups, !.heap = g.heap])

\* default, OVERWRITE_OPTION matched: matched[3] || args[++i]
OverwriteCase(m) ==
    LET matched == OVERWRITE_OPTION_exec(CurArg(m))
        inline == matched[3] # Undefined /\ matched[3] # <<>>
        m1 == IF inline THEN m ELSE NextArg(m)
        value == IF inline THEN matched[3]
                 ELSE IF AtEnd(m1) THEN Undefined
                 ELSE CurArg(m1)
    IN  NextArg([m1 EXCEPT !.set.packageConfig =
                     overwriteConfig(@, matched[1], matched[2], value)])

\* default, CONCAT_OPTIONS matched: the recursive call on the exploded bundle.
ConcatCase(m) ==
    [m EXCEPT !.stack = Append(@, [args |-> Explode(CurArg(m)), i |-> 1])]

\* default, arg[0] === "-"
InvalidCase(m) == Throw(m, CurArg(m))

\* PatternCase pushing onto the first group: set.groups[0].patterns.push(arg).
PatternCase_firstGroup(m) ==
    NextArg([m EXCEPT !.heap[m.set.groups[1].patterns] = Append(@, CurArg(m))])

\* default, otherwise: set.lastGroup.patterns.push(arg)
PatternCase(m) ==
    NextArg([m EXCEPT !.heap[lastGroup(m.set).patterns] = Append(@, CurArg(m))])

\* The loop's condition fails: `return set`.  The outermost call ends the
\* parse; a recursive call returns into the caller's `break` and ++i.
ReturnCase(m) ==
    IF Len(m.stack) = 1
    THEN [m EXCEPT !.pc = "done"]
    ELSE NextArg([m EXCEPT !.stack = SubSeq(@, 1, Len(@) - 1)])

\* One iteration of the loop of parseCLIArgsCore.
Step(m) ==
    IF AtEnd(m) THEN ReturnCase(m)
    ELSE CASE Kind(CurArg(m)) = "continueOnError" -> ContinueOnErrorCase(m)
           [] Kind(CurArg(m)) = "help" -> HelpCase(m)
           [] Kind(CurArg(m)) = "printLabel" -> PrintLabelCase(m)
           [] Kind(CurArg(m)) = "printName" -> PrintNameCase(m)
           [] Kind(CurArg(m)) = "silent" -> SilentCase(m)
           [] Kind(CurArg(m)) = "version" -> VersionCase(m)
           [] Kind(CurArg(m)) = "color" -> ColorCase(m)
           [] Kind(CurArg(m)) = "sequential" -> SequentialCase(m)
           [] Kind(CurArg(m)) = "parallel" -> ParallelCase(m)
           [] Kind(CurArg(m)) = "overwrite" -> OverwriteCase(m)
           [] Kind(CurArg(m)) = "concat" -> ConcatCase(m)
           [] Kind(CurArg(m)) = "invalid" -> InvalidCase(m)
           [] OTHER -> PatternCase(m)

\* parseCLIArgsCore run to its return or its throw.
RECURSIVE Run(_)
Run(m) == IF m.pc # "scan" THEN m ELSE Run(Step(m))

----------------------------------------------------------------------------
\* The inputs of one call of parseCLIArgs and the environment it reads.

CoreTokens ==
    {T_c, T_s, T_S, T_p, T_foo_bar_eq_baz, T_foo_bar, T_cP, T_unknown, T_a}

AllTokens ==
    CoreTokens \cup
    {T_continue_on_error, T_h, T_help, T_l, T_print_label, T_n, T_print_name,
     T_silent, T_v, T_version, T_color, T_no_color, T_sequential, T_serial,
     T_P, T_parallel, T_foo_qux, T_foo_bar_eq, T_foo_bar_eq_a_eq_b,
     T_colon_bar, T_foo_colon, T_foo_bar_eq_multiline, T_multiline, T_clnv,
     T_ls, T_Sn, T_hsp, T_cx, T_x, T_dash, T_b, T_pattern_c, T_baz, T_empty}

\* The lists over S of length at most n.
RECURSIVE Lists(_, _)
Lists(S, n) ==
    IF n = 0 THEN {<<>>}
    ELSE LET shorter == Lists(S, n - 1)
         IN  shorter \cup {Append(l, t) : l \in {x \in shorter : Len(x) = n - 1}, t \in S}

\* Every token alone, every pair of tokens, and longer lists that mix the kinds of token.
ExampleLists ==
    {<<T_s, T_a, T_p, T_b, T_pattern_c>>,
     <<T_c, T_l, T_n, T_v>>,
     <<T_a, T_clnv, T_b>>,
     <<T_a, T_c, T_l, T_n, T_v, T_b>>,
     <<T_a, T_hsp, T_b, T_cP, T_pattern_c>>,
     <<T_a, T_h, T_s, T_p, T_b, T_c, T_P, T_pattern_c>>,
     <<T_a, T_S, T_b, T_foo_bar, T_P, T_pattern_c>>,
     <<T_foo_bar, T_baz, T_foo_bar_eq_a_eq_b>>,
     <<T_a, T_p, T_b, T_unknown>>}
    \cup {<<t>> : t \in AllTokens}
    \cup {<<t, u>> : t \in AllTokens, u \in AllTokens}
    \cup {<<T_a, t, T_b>> : t \in AllTokens}

ArgLists == Lists(CoreTokens, MaxLen) \cup ExampleLists

\* initialValues: nothing, flags for the first group, or the caller's own
\* patterns array, which is the one array of the heap before the call.
InitialValuesSet ==
    {EmptyObject,
     [continueOnError |-> TRUE, parallel |-> TRUE, printLabel |-> TRUE],
     [patterns |-> Len(<<"the caller's array">>)]}

\* What the caller's patterns array holds before the call.
CallerPatterns == <<T_baz>>

OptionsSet == {[singleMode |-> FALSE], [singleMode |-> TRUE]}

EnvSet ==
    {[npm_config_loglevel |-> Undefined, npm_package_name |-> Undefined,
      config |-> EmptyObject],
     [npm_config_loglevel |-> S_silent, npm_package_name |-> S_foo,
      config |-> [k \in {S_bar} |-> S_env]]}

\* The heap before the call: the caller's array, when initialValues has one.
CallerHeap(iv) == IF "patterns" \in DOMAIN iv THEN <<CallerPatterns>> ELSE <<>>

----------------------------------------------------------------------------
VARIABLES
    args,           \* the caller's token list
    initialValues,  \* the caller's initialValues record
    options,        \* the caller's options record
    env,            \* the snapshot of process.env
    set,            \* the ArgumentSet under construction
    heap,           \* the arrays: address -> sequence of strings
    stack,          \* the activations of parseCLIArgsCore: [args, i]
    pc,             \* "scan", "done" (returned) or "error" (thrown)
    error           \* the message of the thrown Error, <<>> when none

inputs == <<args, initialValues, options, env>>
vars == <<args, initialValues, options, env, set, heap, stack, pc, error>>

M == [set |-> set, heap |-> heap, stack |-> stack, pc |-> pc, error |-> error]

Apply(r) ==
    /\ set' = r.set
    /\ heap' = r.heap
    /\ stack' = r.stack
    /\ pc' = r.pc
    /\ error' = r.error
    /\ UNCHANGED inputs

Init ==
    /\ args \in ArgLists
    /\ initialValues \in InitialValuesSet
    /\ options \in OptionsSet
    /\ env \in EnvSet
    /\ LET m == parseCLIArgs(args, initialValues, options, env,
                             CallerHeap(initialValues))
       IN  /\ set = m.set
           /\ heap = m.heap
           /\ stack = m.stack
           /\ pc = m.pc
           /\ error = m.error

Scanning(kind) == pc = "scan" /\ ~AtEnd(M) /\ Kind(CurArg(M)) = kind

ContinueOnError == Scanning("continueOnError") /\ Apply(ContinueOnErrorCase(M))
Help == Scanning("help") /\ Apply(HelpCase(M))
PrintLabel == Scanning("printLabel") /\ Apply(PrintLabelCase(M))
PrintName == Scanning("printName") /\ Apply(PrintNameCase(M))
Silent == Scanning("silent") /\ Apply(SilentCase(M))
Version == Scanning("version") /\ Apply(VersionCase(M))
Color == Scanning("color") /\ Apply(ColorCase(M))
Sequential == Scanning("sequential") /\ Apply(SequentialCase(M))
Parallel == Scanning("parallel") /\ Apply(ParallelCase(M))
Overwrite == Scanning("overwrite") /\ Apply(OverwriteCase(M))
Concat == Scanning("concat") /\ Apply(ConcatCase(M))
Invalid == Scanning("invalid") /\ Apply(InvalidCase(M))
Pattern == Scanning("pattern") /\ Apply(PatternCase(M))
Return == pc = "scan" /\ AtEnd(M) /\ Apply(ReturnCase(M))

Next ==
    \/ ContinueOnError
    \/ Help
    \/ PrintLabel
    \/ PrintName
    \/ Silent
    \/ Version
    \/ Color
    \/ Sequential
    \/ Parallel
    \/ Overwrite
    \/ Concat
    \/ Invalid
    \/ Pattern
    \/ Return

Spec == Init /\ [][Next]_vars

----------------------------------------------------------------------------
\* What a caller sees of a machine: each group with the contents of its
\* patterns array, and how the call ended.

GroupView(m, k) == [m.set.groups[k] EXCEPT !.patterns = m.heap[@]]

View(m) ==
    [groups |-> [k \in 1..Len(m.set.groups) |-> GroupView(m, k)],
     help |-> m.set.help,
     silent |-> m.set.silent,
     version |-> m.set.version,
     singleMode |-> m.set.singleMode,
     packageConfig |-> m.set.packageConfig]

\* The same call on another token list.
Parse(a) ==
    Run(parseCLIArgs(a, initialValues, options, env, CallerHeap(initialValues)))

\* Both calls return the same Argument Set, or both throw.
SameOutcome(m1, m2) ==
    /\ m1.pc = m2.pc
    /\ m1.pc = "done" => View(m1) = View(m2)

SeparatorTokens == {T_S, T_s, T_sequential, T_serial, T_P, T_p, T_parallel}

\* A token is being read.
Reading == pc = "scan" /\ ~AtEnd(M)

StartsWithDash(t) == Len(t) >= 1 /\ t[1] = "-"

----------------------------------------------------------------------------
\* C1: groups has at least one element in every state of the parse, the
\* re-parse of a bundle included, so lastGroup is always an existing group.
C1_GroupsNonEmpty ==
    /\ Len(set.groups) >= 1
    /\ Len(set.groups) \in DOMAIN set.groups
    /\ lastGroup(set).patterns \in DOMAIN heap

\* A returned parse during which a bundle appended a group.
C1_Witness ==
    /\ pc = "done"
    /\ Len(set.groups) = 3
    /\ args = <<T_a, T_hsp, T_b>>

\* C2: in single mode groups has exactly one element in every state; a scanned
\* "-s" (alone or as a letter of a bundle) sets silent, does not throw and adds
\* no group; every other scanned separator token throws Invalid Option.
C2_SingleMode ==
    /\ [](set.singleMode => Len(set.groups) = 1)
    /\ [][(set.singleMode /\ Reading /\ CurArg(M) \in SeparatorTokens) =>
            IF CurArg(M) = T_s
            THEN /\ set'.silent
                 /\ pc' = "scan"
                 /\ error' = <<>>
                 /\ set'.groups = set.groups
            ELSE /\ pc' = "error"
                 /\ error'[1] = "Invalid Option: "
                 /\ set'.groups = set.groups]_vars

\* In single mode the bundle "-hsp" set silent by its "s" and threw at its "p".
C2_Witness ==
    /\ set.singleMode
    /\ args = <<T_hsp>>
    /\ env.npm_config_loglevel = Undefined
    /\ pc = "error"
    /\ set.silent
    /\ Len(set.groups) = 1

SpecExample == <<T_s, T_a, T_p, T_b, T_pattern_c>>

SpecExampleReturned ==
    /\ args = SpecExample
    /\ ~set.singleMode
    /\ initialValues = EmptyObject
    /\ pc = "done"

\* C3 as stated: ["-s","a","-p","b","c"] in non-single mode with empty
\* initialValues returns exactly two groups, [a] sequential and [b,c] parallel.
C3_TwoGroups ==
    SpecExampleReturned =>
        /\ Len(set.groups) = 2
        /\ GroupView(M, 1).parallel = FALSE
        /\ GroupView(M, 1).continueOnError = FALSE
        /\ GroupView(M, 1).patterns = <<T_a>>
        /\ GroupView(M, 2).parallel = TRUE
        /\ GroupView(M, 2).continueOnError = FALSE
        /\ GroupView(M, 2).patterns = <<T_b, T_pattern_c>>

\* C3 amended: the same call returns exactly three groups: the first group of
\* the constructor, left empty, then [a] sequential and [b,c] parallel.
C3_ThreeGroups ==
    SpecExampleReturned =>
        /\ Len(set.groups) = 3
        /\ GroupView(M, 1) = [continueOnError |-> FALSE, parallel |-> FALSE,
                              patterns |-> <<>>, printLabel |-> FALSE,
                              printName |-> FALSE]
        /\ GroupView(M, 2).parallel = FALSE
        /\ GroupView(M, 2).continueOnError = FALSE
        /\ GroupView(M, 2).patterns = <<T_a>>
        /\ GroupView(M, 3).parallel = TRUE
        /\ GroupView(M, 3).continueOnError = FALSE
        /\ GroupView(M, 3).patterns = <<T_b, T_pattern_c>>

C3_Witness == SpecExampleReturned /\ env.npm_package_name = Undefined

\* C9: in non-single mode every scanned separator token appends exactly one
\* group, the new last group, whose fields depend only on the token: parallel
\* for -p, -P, --parallel; continueOnError for -S, -P only; printLabel and
\* printName false; patterns a new empty array.  ["-S"] returns two groups,
\* the second with continueOnError and no pattern.
C9_SeparatorAppendsGroup ==
    /\ [][(~set.singleMode /\ Reading /\ CurArg(M) \in SeparatorTokens) =>
            /\ pc' = "scan"
            /\ Len(set'.groups) = Len(set.groups) + 1
            /\ SubSeq(set'.groups, 1, Len(set.groups)) = set.groups
            /\ lastGroup(set').parallel = (CurArg(M) \in {T_p, T_P, T_parallel})
            /\ lastGroup(set').continueOnError = (CurArg(M) \in {T_S, T_P})
            /\ lastGroup(set').printLabel = FALSE
            /\ lastGroup(set').printName = FALSE
            /\ heap'[lastGroup(set').patterns] = <<>>
            /\ \A k \in 1..Len(set.groups) :
                   set.groups[k].patterns # lastGroup(set').patterns]_vars
    /\ []((args = <<T_S>> /\ ~set.singleMode /\ pc = "done") =>
            /\ Len(set.groups) = 2
            /\ GroupView(M, 2).continueOnError = TRUE
            /\ GroupView(M, 2).patterns = <<>>)

\* "--serial" read after initialValues made the first group parallel, labelled
\* and continuing: the group it appended has none of that.
C9_Witness ==
    /\ pc = "done"
    /\ args = <<T_a, T_serial, T_b>>
    /\ "parallel" \in DOMAIN initialValues
    /\ GroupView(M, 1).parallel
    /\ ~GroupView(M, 2).parallel
    /\ ~GroupView(M, 2).continueOnError

----------------------------------------------------------------------------
\* A bundle: "-" and two or more short-flag letters.
IsBundle(t) ==
    /\ Len(t) >= 3
    /\ t[1] = "-"
    /\ \A k \in 2..Len(t) : t[k] \in {"c", "h", "l", "n", "p", "P", "s", "S", "v"}

\* The tokens -x1, ..., -xk of the bundle -x1...xk.
BundleTokens(t) == [k \in 1..(Len(t) - 1) |-> <<"-", t[k + 1]>>]

\* The list a with its element at position p replaced by the tokens ts.
ReplaceAt(a, p, ts) == SubSeq(a, 1, p - 1) \o ts \o SubSeq(a, p + 1, Len(a))

\* C4: when the outer scan reads a bundle at a position of the caller's list,
\* the parse ends as the parse of the list with the bundle replaced in place
\* by its single-letter tokens: the same Argument Set, or a throw in both.
C4_BundleEquivalence ==
    (Reading /\ Len(stack) = 1 /\ IsBundle(CurArg(M))) =>
        SameOutcome(Run(M),
                    Parse(ReplaceAt(args, stack[1].i, BundleTokens(CurArg(M)))))

\* ["a","-clnv","b"] returned what ["a","-c","-l","-n","-v","b"] returns, with
\* the flags of the bundle set.
C4_Witness ==
    /\ args = <<T_a, T_clnv, T_b>>
    /\ pc = "done"
    /\ set.version
    /\ lastGroup(set).continueOnError
    /\ lastGroup(set).printLabel
    /\ lastGroup(set).printName
    /\ View(M) = View(Parse(<<T_a, T_c, T_l, T_n, T_v, T_b>>))

\* C5 as stated: for every overwrite directive --P:V and non-empty X, the
\* parse of ["--P:V", X] returns, and returns what the parse of ["--P:V=X"]
\* returns: packageConfig[P][V] = X, and groups, patterns, help, version and
\* silent as after parsing [].
C5_OverwriteFormsAgree ==
    (/\ pc # "scan"
     /\ Len(args) = 2
     /\ OVERWRITE_OPTION_exec(args[1]) # Null
     /\ OVERWRITE_OPTION_exec(args[1])[3] = Undefined
     /\ args[2] # <<>>) =>
        LET matched == OVERWRITE_OPTION_exec(args[1])
            inline == Parse(<<args[1] \o <<"=">> \o args[2]>>)
            nothing == Parse(<<>>)
        IN  /\ pc = "done"
            /\ SameOutcome(M, inline)
            /\ set.packageConfig[matched[1]][matched[2]] = args[2]
            /\ View(M).groups = View(nothing).groups
            /\ set.help = nothing.set.help
            /\ set.version = nothing.set.version
            /\ set.silent = nothing.set.silent

\* C6 as stated: a thrown Invalid Option carries the text of the element of
\* the caller's token list that the outer scan was reading.
C6_ErrorCarriesRawToken ==
    pc = "error" => error = <<"Invalid Option: ">> \o args[stack[1].i]

\* C7 as stated: after a throw the arrays the caller passed in (the patterns
\* array of initialValues) hold what they held before the call.  The token
\* list and the two records are never assigned by the parser.
C7_FailureLeavesCallerValues ==
    pc = "error" =>
        \A a \in 1..Len(CallerHeap(initialValues)) :
            heap[a] = CallerHeap(initialValues)[a]

----------------------------------------------------------------------------
\* The token takes the next token of the list as its value.
TakesNextAsValue(t) ==
    OVERWRITE_OPTION_exec(t) # Null /\ OVERWRITE_OPTION_exec(t)[3] = Undefined

\* How many groups a scanned token starts in non-single mode: one for a
\* separator, one for each separator letter of a bundle.
GroupsStarted(t) ==
    IF t \in SeparatorTokens THEN 1
    ELSE IF IsBundle(t)
    THEN Cardinality({k \in 2..Len(t) : t[k] \in {"s", "S", "p", "P"}})
    ELSE 0

\* The patterns of each group as the claim gives them: acc, then the tokens of
\* toks from position k on, a value taken by a directive skipped, a new group
\* at each separator (none in single mode) and each pattern token on the
\* group that is last when it is read.
RECURSIVE ExpectedPatterns(_, _, _, _)
ExpectedPatterns(toks, k, acc, single) ==
    IF k > Len(toks) THEN acc
    ELSE IF TakesNextAsValue(toks[k])
    THEN ExpectedPatterns(toks, k + 2, acc, single)
    ELSE IF StartsWithDash(toks[k])
    THEN ExpectedPatterns(toks, k + 1,
             acc \o [j \in 1..(IF single THEN 0 ELSE GroupsStarted(toks[k])) |-> <<>>],
             single)
    ELSE ExpectedPatterns(toks, k + 1,
             [acc EXCEPT ![Len(acc)] = Append(@, toks[k])], single)

\* The sequences of ss joined in order.
RECURSIVE Flatten(_)
Flatten(ss) == IF ss = <<>> THEN <<>> ELSE Head(ss) \o Flatten(Tail(ss))

\* The scanned tokens of toks, from position k on, that do not start with "-".
RECURSIVE ScannedPatterns(_, _)
ScannedPatterns(toks, k) ==
    IF k > Len(toks) THEN <<>>
    ELSE IF TakesNextAsValue(toks[k]) THEN ScannedPatterns(toks, k + 2)
    ELSE IF StartsWithDash(toks[k]) THEN ScannedPatterns(toks, k + 1)
    ELSE <<toks[k]>> \o ScannedPatterns(toks, k + 1)

PatternsOf(m) == [k \in 1..Len(m.set.groups) |-> m.heap[m.set.groups[k].patterns]]

\* C8: with empty initialValues, a scanned token that does not start with "-"
\* is appended to the patterns of the last group and to no other; a returned
\* parse has in group k the pattern tokens between the (k-1)-th and the k-th
\* separator, in input order, all groups together holding the scanned pattern
\* tokens in input order; and no step changes a group that is not the last.
C8_PatternPlacement ==
    /\ []((pc = "done" /\ initialValues = EmptyObject) =>
            /\ PatternsOf(M) = ExpectedPatterns(args, 1, <<<<>>>>, set.singleMode)
            /\ Flatten(PatternsOf(M)) = ScannedPatterns(args, 1))
    /\ [][(initialValues = EmptyObject /\ Reading /\ ~StartsWithDash(CurArg(M))) =>
            /\ set' = set
            /\ pc' = "scan"
            /\ heap'[lastGroup(set).patterns]
                   = Append(heap[lastGroup(set).patterns], CurArg(M))
            /\ \A a \in DOMAIN heap :
                   a # lastGroup(set).patterns => heap'[a] = heap[a]]_vars
    /\ [][initialValues = EmptyObject =>
            \A k \in 1..(Len(set.groups) - 1) :
                /\ k \in DOMAIN set'.groups
                /\ set'.groups[k] = set.groups[k]
                /\ heap'[set.groups[k].patterns] = heap[set.groups[k].patterns]]_vars

\* Patterns before, between and after two separators, one of them a letter of
\* a bundle, and a value that looks like a separator.
C8_Witness ==
    /\ pc = "done"
    /\ initialValues = EmptyObject
    /\ args = <<T_a, T_S, T_b, T_foo_bar, T_P, T_pattern_c>>
    /\ PatternsOf(M) = <<<<T_a>>, <<T_b, T_pattern_c>>>>

\* C10 as stated: on a returned parse every value of packageConfig is a
\* string: the inline value of its directive or the token that follows it.
C10_ConfigValuesAreStrings ==
    pc = "done" =>
        \A p \in DOMAIN set.packageConfig :
            \A v \in DOMAIN set.packageConfig[p] :
                set.packageConfig[p][v] # Undefined

====
